---- MODULE Spec2Model ----
(***************************************************************************)
(* Model of the xtdb storage client, gateway/storage/xtdb.go.              *)
(*                                                                         *)
(* SpecSync models one invocation of Storage.Sync: the caller blocked on   *)
(* ctx.Done(), the polling goroutine, the timer of context.WithTimeout and *)
(* the store answering the polls.  The slice `response` is shared by the   *)
(* two goroutines without synchronisation; a write of it takes two steps   *)
(* (begin, end) and a read that overlaps a write may see the old value,    *)
(* the new value or a torn slice header.                                   *)
(*                                                                         *)
(* SpecOps models the request/response operations of the client, one       *)
(* invocation at a time: the handler runs up to its HTTP request, the      *)
(* store (or the transport) answers, the handler runs on to its next       *)
(* request or to its return.                                               *)
(***************************************************************************)
EXTENDS Integers, Sequences, FiniteSets, TLC

\* ------------------------------------------------------------------ bounds
\* largest timeout handed to Sync, in clock ticks (0 is the zero timeout)
MaxTimeout == 3
\* the clock stops here
MaxTime == 4
\* poll requests one Sync invocation may issue in the model
MaxPolls == 3
\* entries the failure log may hold in the model
MaxLog == 4

\* records of a put batch, identities of an evict batch
MaxBatch == 2
\* largest transaction id the store hands out
MaxTxID == 2
\* rows of a query result, columns of a row
MaxRows == 2
MaxCols == 2
\* fields of a record handed to EntityToMap
MaxFields == 3
\* concurrent invocations: the longest timeout, the last instant of the
\* clock, the polls of one invocation and the entries of one log
MaxCallTimeout == MaxTimeout - 1
MaxCallTime == MaxCallTimeout
MaxCallPolls == MaxPolls - 2
MaxCallLog == MaxLog - 2

\* time.Sleep(time.Second * 2), in clock ticks
Backoff == 2

\* ------------------------------------------------------------------- state
VARIABLES
    \* ---- Sync
    timeout,      \* the argument of Sync
    now,          \* the clock
    ctxErr,       \* ctx.Err(): "none", "deadline" or "canceled"
    response,     \* var response []string, shared by caller and poller
    pollerPc,     \* "select", "inflight", "writing", "cancel", "sleep", "exited"
    attempt,      \* the loop variable i
    pending,      \* the value a write of response in progress is storing
    afterWrite,   \* where the poller goes when that write is complete
    wakeAt,       \* when the poller's time.Sleep ends
    callerPc,     \* "wait", "check", "join", "returned"
    result,       \* what Sync returned
    \* ---- Sync, history
    polls,        \* attempt numbers of the polls issued, in order
    got200,       \* the attempt whose poll was answered 200, or 0
    readOf,       \* the values of response the caller's last read overlapped
    lateWrites,   \* writes of response begun after the caller returned
    \* ---- request/response operations
    op,           \* the operation being invoked, or "idle"
    opPc,         \* "idle", "submit", "await", "fetch", "query", "done"
    arg,          \* its argument
    sent,         \* the HTTP requests this invocation has issued, in order
    receipt,      \* var txResponse TxResponse
    ret,          \* what the operation returned
    address,      \* s.address
    \* ---- request/response operations, history
    got,          \* the answers this invocation has received, in order
    \* ---- concurrent invocations on one client
    calls,        \* each invocation: its arguments, where it is, what it got
    ctxs,         \* the contexts made by context.WithTimeout
    logs,         \* the slices declared by var response []string
    clock         \* the clock the invocations share

syncVars == <<timeout, now, ctxErr, response, pollerPc, attempt, pending,
              afterWrite, wakeAt, callerPc, result, polls, got200, readOf,
              lateWrites>>
opsVars == <<op, opPc, arg, sent, receipt, ret, address, got>>
conVars == <<calls, ctxs, logs, clock>>
vars == <<syncVars, opsVars, conVars>>

\* ------------------------------------------------------------ Sync: values
StatusOK == 200
\* the statuses the store answers a poll with
PollStatuses == {200, 500}

\* fmt.Sprintf("attempt=%v, failed sync xtdb, error=%v", i, err)
ErrorEntry(i) == [what |-> "error", attempt |-> i, code |-> 0]
\* fmt.Sprintf("attempt=%v, failed sync xtdb, status=%v, response=%v", i, code, data)
StatusEntry(i, c) == [what |-> "status", attempt |-> i, code |-> c]
\* "timeout reached"
TimeoutEntry == [what |-> "timeout", attempt |-> 0, code |-> 0]
\* the separator of strings.Join(response, "; ")
Separator == [what |-> "; ", attempt |-> 0, code |-> 0]

NoResult == [returned |-> FALSE, err |-> FALSE, torn |-> FALSE, msg |-> <<>>]
\* return nil
NilResult == [returned |-> TRUE, err |-> FALSE, torn |-> FALSE, msg |-> <<>>]

RECURSIVE Join(_)
\* strings.Join(elems, "; ")
Join(elems) ==
    IF Len(elems) = 0 THEN <<>>
    ELSE IF Len(elems) = 1 THEN <<elems[1]>>
    ELSE <<elems[1], Separator>> \o Join(Tail(elems))

\* fmt.Errorf(strings.Join(response, "; ")) of the slice the caller read
ErrorResult(slice) ==
    [returned |-> TRUE, err |-> TRUE, torn |-> FALSE, msg |-> Join(slice)]
\* the same of a torn slice header: a message of no particular content
TornResult == [returned |-> TRUE, err |-> TRUE, torn |-> TRUE, msg |-> <<>>]

\* the entries of a log or of a message that record a failed attempt
IsAttempt(e) == e.what \in {"error", "status"}
AttemptsOf(s) == SelectSeq(s, IsAttempt)

\* a poller that forgets to discard the log
SuccessLogKept(log) == log

\* response = nil
SuccessLog(log) == <<>>

\* the values a read of response may see: the variable, or, while a write
\* of it is in progress, also the value being stored
Readable == IF pollerPc = "writing" THEN {response, pending} ELSE {response}

\* ------------------------------------------------------------- Sync: steps
InitSync ==
    /\ timeout \in 0..MaxTimeout
    /\ now = 0
    \* context.WithTimeout with a timeout of zero returns a context that is
    \* already done
    /\ ctxErr = IF timeout = 0 THEN "deadline" ELSE "none"
    /\ response = <<>>
    /\ pollerPc = "select"
    /\ attempt = 1
    /\ pending = <<>>
    /\ afterWrite = "select"
    /\ wakeAt = 0
    /\ callerPc = "wait"
    /\ result = NoResult
    /\ polls = <<>>
    /\ got200 = 0
    /\ readOf = {}
    /\ lateWrites = 0

\* time passes; the timer fires no later than the deadline
Tick ==
    /\ now < MaxTime
    /\ ctxErr = "none" => now < timeout
    /\ now' = now + 1
    /\ UNCHANGED <<timeout, ctxErr, response, pollerPc, attempt, pending,
                   afterWrite, wakeAt, callerPc, result, polls, got200, readOf,
                   lateWrites>>
    /\ UNCHANGED <<opsVars, conVars>>

\* the timer of context.WithTimeout
DeadlineFires ==
    /\ ctxErr = "none"
    /\ now >= timeout
    /\ ctxErr' = "deadline"
    /\ UNCHANGED <<timeout, now, response, pollerPc, attempt, pending,
                   afterWrite, wakeAt, callerPc, result, polls, got200, readOf,
                   lateWrites>>
    /\ UNCHANGED <<opsVars, conVars>>

\* the poller starts to store v in response
BeginWrite(v, next) ==
    /\ pending' = v
    /\ afterWrite' = next
    /\ pollerPc' = "writing"
    /\ lateWrites' = IF callerPc = "returned" THEN lateWrites + 1 ELSE lateWrites

\* case <-ctx.Done(): response = append(response, "timeout reached"), and
\* the loop goes round
PollerTimeout ==
    /\ pollerPc = "select"
    /\ ctxErr # "none"
    /\ Len(response) < MaxLog
    /\ BeginWrite(Append(response, TimeoutEntry), "loop")
    /\ UNCHANGED <<timeout, now, ctxErr, response, attempt, wakeAt, callerPc,
                   result, polls, got200, readOf>>
    /\ UNCHANGED <<opsVars, conVars>>

\* a loop that polls without looking at the context
PollerPollUnchecked ==
    /\ pollerPc = "select"
    /\ Len(polls) < MaxPolls
    /\ polls' = Append(polls, attempt)
    /\ pollerPc' = "inflight"
    /\ UNCHANGED <<timeout, now, ctxErr, response, attempt, pending, afterWrite,
                   wakeAt, callerPc, result, got200, readOf, lateWrites>>
    /\ UNCHANGED <<opsVars, conVars>>

\* default: resp, err := http.Get(url)
PollerPoll ==
    /\ pollerPc = "select"
    /\ ctxErr = "none"
    /\ Len(polls) < MaxPolls
    /\ polls' = Append(polls, attempt)
    /\ pollerPc' = "inflight"
    /\ UNCHANGED <<timeout, now, ctxErr, response, attempt, pending, afterWrite,
                   wakeAt, callerPc, result, got200, readOf, lateWrites>>
    /\ UNCHANGED <<opsVars, conVars>>

\* http.Get returns an error
PollTransportError ==
    /\ pollerPc = "inflight"
    /\ Len(response) < MaxLog
    /\ BeginWrite(Append(response, ErrorEntry(attempt)), "sleep")
    /\ UNCHANGED <<timeout, now, ctxErr, response, attempt, wakeAt, callerPc,
                   result, polls, got200, readOf>>
    /\ UNCHANGED <<opsVars, conVars>>

\* http.Get returns a response
PollAnswered ==
    /\ pollerPc = "inflight"
    /\ \E status \in PollStatuses :
        IF status # StatusOK
        THEN /\ Len(response) < MaxLog
             /\ BeginWrite(Append(response, StatusEntry(attempt, status)), "sleep")
             /\ UNCHANGED got200
        ELSE /\ BeginWrite(SuccessLog(response), "cancel")
             /\ got200' = attempt
    /\ UNCHANGED <<timeout, now, ctxErr, response, attempt, wakeAt, callerPc,
                   result, polls, readOf>>
    /\ UNCHANGED <<opsVars, conVars>>

\* the store of response is complete
PollerEndWrite ==
    /\ pollerPc = "writing"
    /\ response' = pending
    /\ IF afterWrite = "loop"
       THEN /\ pollerPc' = "select"
            /\ attempt' = attempt + 1
            /\ UNCHANGED wakeAt
       ELSE IF afterWrite = "sleep"
       THEN /\ pollerPc' = "sleep"
            /\ wakeAt' = now + Backoff
            /\ UNCHANGED attempt
       ELSE /\ pollerPc' = "cancel"
            /\ UNCHANGED <<attempt, wakeAt>>
    /\ UNCHANGED <<timeout, now, ctxErr, pending, afterWrite, callerPc, result,
                   polls, got200, readOf, lateWrites>>
    /\ UNCHANGED <<opsVars, conVars>>

\* a poller that goes round again without waiting for its sleep to end
PollerWakeAtOnce ==
    /\ pollerPc = "sleep"
    /\ pollerPc' = "select"
    /\ attempt' = attempt + 1
    /\ UNCHANGED <<timeout, now, ctxErr, response, pending, afterWrite, wakeAt,
                   callerPc, result, polls, got200, readOf, lateWrites>>
    /\ UNCHANGED <<opsVars, conVars>>

\* time.Sleep(time.Second * 2) ends; continue
PollerWake ==
    /\ pollerPc = "sleep"
    /\ now >= wakeAt
    /\ pollerPc' = "select"
    /\ attempt' = attempt + 1
    /\ UNCHANGED <<timeout, now, ctxErr, response, pending, afterWrite, wakeAt,
                   callerPc, result, polls, got200, readOf, lateWrites>>
    /\ UNCHANGED <<opsVars, conVars>>

\* cancelFn(); break exit
PollerCancel ==
    /\ pollerPc = "cancel"
    /\ ctxErr' = IF ctxErr = "none" THEN "canceled" ELSE ctxErr
    /\ pollerPc' = "exited"
    /\ UNCHANGED <<timeout, now, response, attempt, pending, afterWrite, wakeAt,
                   callerPc, result, polls, got200, readOf, lateWrites>>
    /\ UNCHANGED <<opsVars, conVars>>

\* a caller that waits for the poller to exit
CallerJoinsPoller ==
    /\ callerPc = "wait"
    /\ pollerPc = "exited"
    /\ callerPc' = "check"
    /\ UNCHANGED <<timeout, now, ctxErr, response, pollerPc, attempt, pending,
                   afterWrite, wakeAt, result, polls, got200, readOf, lateWrites>>
    /\ UNCHANGED <<opsVars, conVars>>

\* <-ctx.Done()
CallerReleased ==
    /\ callerPc = "wait"
    /\ ctxErr # "none"
    /\ callerPc' = "check"
    /\ UNCHANGED <<timeout, now, ctxErr, response, pollerPc, attempt, pending,
                   afterWrite, wakeAt, result, polls, got200, readOf, lateWrites>>
    /\ UNCHANGED <<opsVars, conVars>>

\* if len(response) > 0: a read of the length alone
CallerCheck ==
    /\ callerPc = "check"
    /\ \E seen \in Readable :
        IF Len(seen) > 0
        THEN /\ callerPc' = "join"
             /\ UNCHANGED <<result, readOf>>
        ELSE /\ callerPc' = "returned"
             /\ result' = NilResult
             /\ readOf' = Readable
    /\ UNCHANGED <<timeout, now, ctxErr, response, pollerPc, attempt, pending,
                   afterWrite, wakeAt, polls, got200, lateWrites>>
    /\ UNCHANGED <<opsVars, conVars>>

\* return fmt.Errorf(strings.Join(response, "; ")): a read of the slice header
CallerJoin ==
    /\ callerPc = "join"
    /\ \/ \E seen \in Readable : result' = ErrorResult(seen)
       \/ /\ pollerPc = "writing"
          /\ result' = TornResult
    /\ readOf' = Readable
    /\ callerPc' = "returned"
    /\ UNCHANGED <<timeout, now, ctxErr, response, pollerPc, attempt, pending,
                   afterWrite, wakeAt, polls, got200, lateWrites>>
    /\ UNCHANGED <<opsVars, conVars>>



NextSync ==
    \/ Tick
    \/ DeadlineFires
    \/ PollerTimeout
    \/ PollerPoll
    \/ PollTransportError
    \/ PollAnswered
    \/ PollerEndWrite
    \/ PollerWake
    \/ PollerCancel
    \/ CallerReleased
    \/ CallerCheck
    \/ CallerJoin

\* ------------------------------------------------------ operations: values
StatusAccepted == 202
StatusNotFound == 404
\* the statuses the store answers a request with
Statuses == {200, 202, 404, 500}

\* defaultAddress
DefaultAddress == "http://localhost:3000"
Addresses == {DefaultAddress, "http://xtdb:3000"}

SeqsUpTo(S, n) == UNION {[1..k -> S] : k \in 0..n}

\* the records a caller puts; Unencodable is a value edn.Marshal and
\* json.Marshal reject
Documents == {"doc1", "doc2"}
Unencodable == "chan"
Identities == {"id1", "id2"}
\* sort orders a caller may hand to GetEntityHistory
SortOrders == {"asc", "desc", "ASC", ""}
Columns == {"a", "b"}

\* a response body: bytes that decode as rows of columns, or do not
NoBody == [decodes |-> FALSE, rows |-> <<>>]
Bodies ==
    {NoBody} \cup
    {[decodes |-> TRUE, rows |-> r] : r \in SeqsUpTo(SeqsUpTo(Columns, MaxCols), MaxRows)}

\* the pieces of an encoded payload
Tok(s) == [tok |-> s, of |-> ""]
\* edn.Marshal(tx)
EdnMarshal(tx) == [tok |-> "edn", of |-> tx]
\* the payload as json.Marshal writes it
JsonMarshal(payload) == [tok |-> "json", of |-> payload]
\* %q
Quoted(id) == [tok |-> "quoted", of |-> id]

Encodable(batch) == \A k \in DOMAIN batch : batch[k] # Unencodable

RECURSIVE PutOpsEdnReversed(_)
\* an encoder that writes the operations last record first
PutOpsEdnReversed(trxs) ==
    IF trxs = <<>> THEN <<>>
    ELSE PutOpsEdnReversed(Tail(trxs))
         \o <<Tok("["), Tok(":xtdb.api/put"), EdnMarshal(Head(trxs)), Tok("]")>>

RECURSIVE PutOpsEdn(_)
\* strings.Join(trxVector, "") of the [:xtdb.api/put %v] of each record
PutOpsEdn(trxs) ==
    IF trxs = <<>> THEN <<>>
    ELSE <<Tok("["), Tok(":xtdb.api/put"), EdnMarshal(Head(trxs)), Tok("]")>>
         \o PutOpsEdn(Tail(trxs))

buildTrxPutEdn(trxs) ==
    IF ~Encodable(trxs)
    THEN [err |-> TRUE, body |-> <<>>]
    ELSE [err |-> FALSE,
          body |-> <<Tok("{"), Tok(":tx-ops"), Tok("[")>> \o PutOpsEdn(trxs)
                   \o <<Tok("]"), Tok("}")>>]

RECURSIVE EvictOpsEdn(_)
EvictOpsEdn(xtIDs) ==
    IF xtIDs = <<>> THEN <<>>
    ELSE <<Tok("["), Tok(":xtdb.api/evict"), Quoted(Head(xtIDs)), Tok("]")>>
         \o EvictOpsEdn(Tail(xtIDs))

buildTrxEvictEdn(xtIDs) ==
    [err |-> FALSE,
     body |-> <<Tok("{"), Tok(":tx-ops"), Tok("[")>> \o EvictOpsEdn(xtIDs)
              \o <<Tok("]"), Tok("}")>>]

RECURSIVE PutOpsJson(_)
\* the elements of txOps as json.Marshal writes them, comma separated
PutOpsJson(payloads) ==
    IF payloads = <<>> THEN <<>>
    ELSE <<Tok("["), Tok("\"put\""), Tok(","), JsonMarshal(Head(payloads)), Tok("]")>>
         \o (IF Tail(payloads) = <<>> THEN <<>> ELSE <<Tok(",")>>)
         \o PutOpsJson(Tail(payloads))

buildPersistPayload(payloads) ==
    IF ~Encodable(payloads)
    THEN [err |-> TRUE, body |-> <<>>]
    ELSE [err |-> FALSE,
          body |-> <<Tok("{"), Tok("\"tx-ops\""), Tok(":"), Tok("[")>>
                   \o PutOpsJson(payloads) \o <<Tok("]"), Tok("}")>>]

\* an HTTP request
BlankRequest ==
    [method |-> "GET", base |-> "", path |-> "", accept |-> "", contentType |-> "",
     body |-> <<>>, eid |-> "", sortOrder |-> "", history |-> "", withDocs |-> "",
     txid |-> 0, timeoutMs |-> 0]

\* a submission that always asks for the structured-data encoding back
SubmitRequestEdnAccept(base, body, encoding) ==
    [BlankRequest EXCEPT !.method = "POST", !.base = base, !.path = "/_xtdb/submit-tx",
                         !.accept = "application/edn", !.contentType = encoding,
                         !.body = body]

\* POST {address}/_xtdb/submit-tx
SubmitRequest(base, body, encoding) ==
    [BlankRequest EXCEPT !.method = "POST", !.base = base, !.path = "/_xtdb/submit-tx",
                         !.accept = encoding, !.contentType = encoding, !.body = body]

\* GET {address}/_xtdb/await-tx?tx-id=%v&timeout=5000
AwaitRequest(base, txID) ==
    [BlankRequest EXCEPT !.base = base, !.path = "/_xtdb/await-tx", !.txid = txID,
                         !.timeoutMs = 5000]

\* GET {address}/_xtdb/entity?eid=
EntityRequest(base, xtId) ==
    [BlankRequest EXCEPT !.base = base, !.path = "/_xtdb/entity",
                         !.accept = "application/edn", !.eid = xtId]

\* GET {address}/_xtdb/entity?eid=&sort-order=&history=true&with-docs=
HistoryRequest(base, eid, sortOrder, withDocs) ==
    [BlankRequest EXCEPT !.base = base, !.path = "/_xtdb/entity",
                         !.accept = "application/edn", !.eid = eid,
                         !.sortOrder = sortOrder, !.history = "true",
                         !.withDocs = IF withDocs THEN "true" ELSE "false"]

\* POST {address}/_xtdb/query
QueryRequest(base, ednQuery, contentType) ==
    [BlankRequest EXCEPT !.method = "POST", !.base = base, !.path = "/_xtdb/query",
                         !.accept = contentType, !.contentType = "application/edn",
                         !.body = <<Tok(ednQuery)>>]

\* what an operation returns
NoErr == [kind |-> "", code |-> 0, txid |-> 0]
NoVal == [kind |-> "nil", txid |-> 0, body |-> NoBody, elems |-> <<>>, payload |-> <<>>]
NoRet == [outcome |-> "none", err |-> NoErr, val |-> NoVal]
Fail(kind, code, txID) ==
    [outcome |-> "error", err |-> [kind |-> kind, code |-> code, txid |-> txID],
     val |-> NoVal]
\* return &txResponse, nil and return txResponse.TxID, nil
OkReceipt(txID) ==
    [outcome |-> "ok", err |-> NoErr, val |-> [NoVal EXCEPT !.kind = "receipt", !.txid = txID]]
\* return b, nil
OkBytes(b) ==
    [outcome |-> "ok", err |-> NoErr, val |-> [NoVal EXCEPT !.kind = "bytes", !.body = b]]
\* return nil, nil
OkNil == [outcome |-> "ok", err |-> NoErr, val |-> NoVal]
\* the re-serialised list of first columns
OkList(r) ==
    [outcome |-> "ok", err |-> NoErr, val |-> [NoVal EXCEPT !.kind = "list", !.elems = r]]
\* return payload
OkMap(payload) ==
    [outcome |-> "ok", err |-> NoErr, val |-> [NoVal EXCEPT !.kind = "map", !.payload = payload]]
\* an index out of range aborts the call
Panic == [outcome |-> "panic", err |-> NoErr, val |-> NoVal]

\* an answer of the store, or a failure of the transport
Answer(status, readOk, decodeOk, txID, b) ==
    [transport |-> FALSE, status |-> status, readOk |-> readOk,
     decodeOk |-> decodeOk, txid |-> txID, body |-> b]
TransportError ==
    [transport |-> TRUE, status |-> 0, readOk |-> FALSE, decodeOk |-> FALSE,
     txid |-> 0, body |-> NoBody]

NoArg ==
    [batch |-> <<>>, ids |-> <<>>, eid |-> "", sortOrder |-> "", withDocs |-> FALSE,
     query |-> "", txid |-> 0, fields |-> <<>>]

SubmitOps == {"SubmitPutTx", "SubmitEvictTx", "PersistEntities"}
FetchOps == {"GetEntity", "GetEntityHistory"}
QueryOps == {"QueryRaw", "QueryRawAsJson", "Query", "QueryAsJson"}

\* ------------------------------------------------------- operations: steps
InitOps ==
    /\ op = "idle"
    /\ opPc = "idle"
    /\ arg = NoArg
    /\ sent = <<>>
    /\ receipt = 0
    /\ ret = NoRet
    /\ address = DefaultAddress
    /\ got = <<>>

\* an invocation that sends its first request again
BeginTwice(name, a, request, pc) ==
    /\ op' = name
    /\ arg' = a
    /\ sent' = <<request, request>>
    /\ opPc' = pc
    /\ UNCHANGED <<receipt, ret, address, got>>

\* the invocation op(a) begins and issues its first request
Begin(name, a, request, pc) ==
    /\ op' = name
    /\ arg' = a
    /\ sent' = <<request>>
    /\ opPc' = pc
    /\ UNCHANGED <<receipt, ret, address, got>>

\* the invocation op(a) begins and returns r with no request issued
Reject(name, a, r) ==
    /\ op' = name
    /\ arg' = a
    /\ ret' = r
    /\ opPc' = "done"
    /\ UNCHANGED <<sent, receipt, address, got>>

\* the invocation returns r after the answer ans
Finish(ans, r) ==
    /\ got' = Append(got, ans)
    /\ ret' = r
    /\ opPc' = "done"
    /\ UNCHANGED <<op, arg, sent, address>>

CallSubmitPutTx ==
    /\ opPc = "idle"
    /\ \E trxs \in SeqsUpTo(Documents \cup {Unencodable}, MaxBatch) :
        LET a == [NoArg EXCEPT !.batch = trxs]
            txOpsEdn == buildTrxPutEdn(trxs)
        IN  IF txOpsEdn.err
            THEN Reject("SubmitPutTx", a, Fail("encode", 0, 0))
            ELSE Begin("SubmitPutTx", a,
                       SubmitRequest(address, txOpsEdn.body, "application/edn"), "submit")
    /\ UNCHANGED <<syncVars, conVars>>

\* an evict that sends whatever it is given
NoEvictGuard(xtIDs) == FALSE

\* if len(xtIDs) == 0
EmptyEvict(xtIDs) == Len(xtIDs) = 0

CallSubmitEvictTx ==
    /\ opPc = "idle"
    /\ \E xtIDs \in SeqsUpTo(Identities, MaxBatch) :
        LET a == [NoArg EXCEPT !.ids = xtIDs]
            txOpsEdn == buildTrxEvictEdn(xtIDs)
        IN  IF EmptyEvict(xtIDs)
            THEN Reject("SubmitEvictTx", a, Fail("caller", 0, 0))
            ELSE Begin("SubmitEvictTx", a,
                       SubmitRequest(address, txOpsEdn.body, "application/edn"), "submit")
    /\ UNCHANGED <<syncVars, conVars>>

CallPersistEntities ==
    /\ opPc = "idle"
    /\ \E payloads \in SeqsUpTo(Documents \cup {Unencodable}, MaxBatch) :
        LET a == [NoArg EXCEPT !.batch = payloads]
            bytePayload == buildPersistPayload(payloads)
        IN  IF bytePayload.err
            THEN Reject("PersistEntities", a, Fail("encode", 0, 0))
            ELSE Begin("PersistEntities", a,
                       SubmitRequest(address, bytePayload.body, "application/json"), "submit")
    /\ UNCHANGED <<syncVars, conVars>>

\* s.client.Do(req) of a submission returns an error
SubmitTransportError ==
    /\ opPc = "submit"
    /\ Finish(TransportError, Fail("transport", 0, 0))
    /\ UNCHANGED receipt
    /\ UNCHANGED <<syncVars, conVars>>

\* the error a submission returns for a status that is not 202
SubmitStatusError(name, status) ==
    IF name = "PersistEntities"
    THEN Fail("not 202", 0, 0)
    ELSE Fail("status", status, 0)

\* a submission that gives up when its await fails
AfterAwaitStrict(name, txID, awaitErr) ==
    IF awaitErr THEN Fail("await", 0, txID) ELSE OkReceipt(txID)

\* a submission answered 202 whose await failed logs a warning and still
\* returns the receipt
AfterAwait(name, txID, awaitErr) == OkReceipt(txID)

\* a submission that awaits every receipt
NeedsAwaitAlways(txID) == TRUE

\* if txResponse.TxID > 0
NeedsAwait(txID) == txID > 0

\* the store answers a submission; with 202 the receipt is decoded (a failed
\* decode may leave any id in it) and a positive id is awaited
SubmitAnswered ==
    /\ opPc = "submit"
    /\ \E status \in Statuses, decodeOk \in BOOLEAN, txID \in 0..MaxTxID :
        LET ans == Answer(status, TRUE, decodeOk, txID, NoBody) IN
        IF status = StatusAccepted
        THEN /\ receipt' = txID
             /\ IF NeedsAwait(txID)
                THEN /\ sent' = Append(sent, AwaitRequest(address, txID))
                     /\ got' = Append(got, ans)
                     /\ opPc' = "await"
                     /\ UNCHANGED <<op, arg, ret, address>>
                ELSE Finish(ans, OkReceipt(txID))
        ELSE /\ Finish(ans, SubmitStatusError(op, status))
             /\ UNCHANGED receipt
    /\ UNCHANGED <<syncVars, conVars>>

\* the error of AwaitTx
AwaitError(ans, txID) ==
    IF ans.transport THEN Fail("await transport", 0, txID)
    ELSE Fail("await status", ans.status, txID)

\* what AwaitTx returns for an answer
AwaitResult(ans, txID) ==
    IF ans.transport \/ ans.status # StatusOK THEN AwaitError(ans, txID) ELSE OkNil

CallAwaitTx ==
    /\ opPc = "idle"
    /\ \E txID \in 0..MaxTxID :
        Begin("AwaitTx", [NoArg EXCEPT !.txid = txID], AwaitRequest(address, txID), "await")
    /\ UNCHANGED <<syncVars, conVars>>

\* http.Get(url) of AwaitTx returns: to the caller of AwaitTx, or inside a
\* submission, which logs a failure and returns its receipt
AwaitReturns ==
    /\ opPc = "await"
    /\ \E ans \in {TransportError} \cup
                  {Answer(st, TRUE, TRUE, 0, NoBody) : st \in Statuses} :
        IF op = "AwaitTx"
        THEN Finish(ans, AwaitResult(ans, arg.txid))
        ELSE Finish(ans, AfterAwait(op, receipt, AwaitResult(ans, receipt).outcome = "error"))
    /\ UNCHANGED receipt
    /\ UNCHANGED <<syncVars, conVars>>

CallGetEntity ==
    /\ opPc = "idle"
    /\ \E xtId \in Identities :
        Begin("GetEntity", [NoArg EXCEPT !.eid = xtId], EntityRequest(address, xtId), "fetch")
    /\ UNCHANGED <<syncVars, conVars>>

\* a history fetch that takes any sort order
AnySortOrder(sortOrder) == TRUE

\* sortOrder != "asc" && sortOrder != "desc" is the rejection
ValidSortOrder(sortOrder) == sortOrder = "asc" \/ sortOrder = "desc"

CallGetEntityHistory ==
    /\ opPc = "idle"
    /\ \E eid \in Identities, sortOrder \in SortOrders, withDocs \in BOOLEAN :
        LET a == [NoArg EXCEPT !.eid = eid, !.sortOrder = sortOrder, !.withDocs = withDocs]
        IN  IF ~ValidSortOrder(sortOrder)
            THEN Reject("GetEntityHistory", a, Fail("caller", 0, 0))
            ELSE Begin("GetEntityHistory", a,
                       HistoryRequest(address, eid, sortOrder, withDocs), "fetch")
    /\ UNCHANGED <<syncVars, conVars>>

\* a fetch for which a missing entity is an error
FetchResultStrict(ans) ==
    IF ans.status = StatusOK /\ ans.readOk THEN OkBytes(ans.body)
    ELSE Fail("status", ans.status, 0)

\* the status switch of GetEntity and GetEntityHistory
FetchResult(ans) ==
    IF ans.status = StatusOK
    THEN IF ans.readOk THEN OkBytes(ans.body) ELSE Fail("read", 0, 0)
    ELSE IF ans.status = StatusNotFound THEN OkNil
    ELSE Fail("status", ans.status, 0)

FetchReturns ==
    /\ opPc = "fetch"
    /\ \E ans \in {TransportError} \cup
                  {Answer(st, rd, TRUE, 0, b) : st \in Statuses, rd \in BOOLEAN,
                                                b \in {NoBody, [decodes |-> TRUE, rows |-> <<>>]}} :
        Finish(ans, IF ans.transport THEN Fail("transport", 0, 0) ELSE FetchResult(ans))
    /\ UNCHANGED receipt
    /\ UNCHANGED <<syncVars, conVars>>

\* the accept header of each query operation
QueryAccept(name) ==
    IF name \in {"QueryRawAsJson", "QueryAsJson"} THEN "application/json"
    ELSE "application/edn"

CallQuery ==
    /\ opPc = "idle"
    /\ \E name \in QueryOps :
        Begin(name, [NoArg EXCEPT !.query = "q"],
              QueryRequest(address, "q", QueryAccept(name)), "query")
    /\ UNCHANGED <<syncVars, conVars>>

\* queryRequest: the body whatever the status
queryRequest(ans) ==
    IF ans.transport THEN Fail("transport", 0, 0)
    ELSE IF ~ans.readOk THEN Fail("read", 0, 0)
    ELSE OkBytes(ans.body)

\* a normaliser that keeps the last column of each row
LastColumns(p) == [k \in DOMAIN p |-> p[k][Len(p[k])]]

\* r = append(r, l[0]) for each row l of p
FirstColumns(p) == [k \in DOMAIN p |-> p[k][1]]

\* Query and QueryAsJson: decode the rows, keep the first column of each
Normalize(b) ==
    IF ~b.decodes THEN Fail("decode", 0, 0)
    ELSE IF \E k \in DOMAIN b.rows : Len(b.rows[k]) = 0 THEN Panic
    ELSE OkList(FirstColumns(b.rows))

QueryResult(name, ans) ==
    LET raw == queryRequest(ans) IN
    IF raw.outcome # "ok" \/ name \in {"QueryRaw", "QueryRawAsJson"} THEN raw
    ELSE Normalize(raw.val.body)

QueryReturns ==
    /\ opPc = "query"
    /\ \E ans \in {TransportError} \cup
                  {Answer(st, rd, TRUE, 0, b) : st \in Statuses, rd \in BOOLEAN, b \in Bodies} :
        Finish(ans, QueryResult(op, ans))
    /\ UNCHANGED receipt
    /\ UNCHANGED <<syncVars, conVars>>

\* the edn tags of a record's fields ("" is a field with no tag) and the
\* values they hold
Tags == {"", "-", "a", "b"}
FieldValues == {"v1", "v2"}
Fields == [tag : Tags, value : FieldValues]

\* a projector that only drops the fields with no tag
KeepAnyTag(xtdbName) == xtdbName # ""

\* if xtdbName != "" && xtdbName != "-"
KeepTag(xtdbName) == xtdbName # "" /\ xtdbName # "-"

RECURSIVE EntityToMap(_)
\* the loop over the fields, first to last: payload[xtdbName] = f.Interface()
EntityToMap(fields) ==
    IF fields = <<>> THEN <<>>
    ELSE LET f == fields[Len(fields)]
             payload == EntityToMap(SubSeq(fields, 1, Len(fields) - 1))
         IN  IF KeepTag(f.tag)
             THEN [k \in DOMAIN payload \cup {f.tag} |->
                      IF k = f.tag THEN f.value ELSE payload[k]]
             ELSE payload

CallEntityToMap ==
    /\ opPc = "idle"
    /\ \E fields \in SeqsUpTo(Fields, MaxFields) :
        Reject("EntityToMap", [NoArg EXCEPT !.fields = fields], OkMap(EntityToMap(fields)))
    /\ UNCHANGED <<syncVars, conVars>>

\* SetURL
SetURL ==
    /\ \E xtdbURL \in Addresses : address' = xtdbURL
    /\ UNCHANGED <<op, opPc, arg, sent, receipt, ret, got>>
    /\ UNCHANGED <<syncVars, conVars>>

\* the caller has its result; the client is ready for the next invocation
Return ==
    /\ opPc = "done"
    /\ op' = "idle"
    /\ opPc' = "idle"
    /\ arg' = NoArg
    /\ sent' = <<>>
    /\ receipt' = 0
    /\ ret' = NoRet
    /\ got' = <<>>
    /\ UNCHANGED address
    /\ UNCHANGED <<syncVars, conVars>>

NextOps ==
    \/ CallSubmitPutTx
    \/ CallSubmitEvictTx
    \/ CallPersistEntities
    \/ SubmitTransportError
    \/ SubmitAnswered
    \/ CallAwaitTx
    \/ AwaitReturns
    \/ CallGetEntity
    \/ CallGetEntityHistory
    \/ FetchReturns
    \/ CallQuery
    \/ QueryReturns
    \/ CallEntityToMap
    \/ SetURL
    \/ Return

\* ------------------------------------- concurrent invocations on one client
\* the invocations in progress on the client
Invocations == {"i1", "i2"}

\* no concurrent invocation
NoCalls ==
    /\ calls = <<>>
    /\ ctxs = <<>>
    /\ logs = <<>>
    /\ clock = 0

\* Sync(timeout), its goroutine started
SyncCall(t) ==
    [kind |-> "Sync", timeout |-> t, eid |-> "", callerPc |-> "wait",
     pollerPc |-> "select", attempt |-> 1, answers |-> <<>>, ret |-> NoResult]

\* GetEntity(xtId), its request sent
FetchCall(xtId) ==
    [kind |-> "GetEntity", timeout |-> 0, eid |-> xtId, callerPc |-> "fetch",
     pollerPc |-> "none", attempt |-> 0, answers |-> <<>>, ret |-> NoRet]

Calls == {SyncCall(t) : t \in 1..MaxCallTimeout} \cup {FetchCall(xtId) : xtId \in Identities}

\* a context that is a field of the client
CtxOfClient(i) == "i1"

\* ctx, cancelFn := context.WithTimeout(...): a context of the invocation
CtxOf(i) == i

\* a failure log that is a field of the client
LogOfClient(i) == "i1"

\* var response []string: a slice of the invocation
LogOf(i) == i

\* an entry of a log, with the invocation whose poller wrote it
Written(i, e) == [by |-> i, entry |-> e]

InitCalls ==
    /\ calls \in [Invocations -> Calls]
    /\ ctxs = [c \in Invocations |-> "none"]
    /\ logs = [c \in Invocations |-> <<>>]
    /\ clock = 0

ClockTick ==
    /\ clock < MaxCallTime
    /\ clock' = clock + 1
    /\ UNCHANGED <<calls, ctxs, logs>>
    /\ UNCHANGED <<syncVars, opsVars>>

\* the timer of an invocation's context
CallDeadline ==
    /\ \E i \in Invocations :
        /\ calls[i].kind = "Sync"
        /\ ctxs[CtxOf(i)] = "none"
        /\ clock >= calls[i].timeout
        /\ ctxs' = [ctxs EXCEPT ![CtxOf(i)] = "deadline"]
    /\ UNCHANGED <<calls, logs, clock>>
    /\ UNCHANGED <<syncVars, opsVars>>

\* case <-ctx.Done(): response = append(response, "timeout reached")
CallPollerTimeout ==
    /\ \E i \in Invocations :
        /\ calls[i].pollerPc = "select"
        /\ ctxs[CtxOf(i)] # "none"
        /\ Len(logs[LogOf(i)]) < MaxCallLog
        /\ logs' = [logs EXCEPT ![LogOf(i)] = Append(@, Written(i, TimeoutEntry))]
        /\ calls' = [calls EXCEPT ![i].attempt = @ + 1]
    /\ UNCHANGED <<ctxs, clock>>
    /\ UNCHANGED <<syncVars, opsVars>>

\* default: resp, err := http.Get(url)
CallPoll ==
    /\ \E i \in Invocations :
        /\ calls[i].pollerPc = "select"
        /\ ctxs[CtxOf(i)] = "none"
        /\ Len(calls[i].answers) < MaxCallPolls
        /\ calls' = [calls EXCEPT ![i].pollerPc = "inflight"]
    /\ UNCHANGED <<ctxs, logs, clock>>
    /\ UNCHANGED <<syncVars, opsVars>>

\* the poll fails, by a transport error (code 0) or a status that is not
\* 200: the failure is logged and the poller sleeps
CallPollFails ==
    /\ \E i \in Invocations, code \in {0} \cup (PollStatuses \ {StatusOK}) :
        /\ calls[i].pollerPc = "inflight"
        /\ Len(logs[LogOf(i)]) < MaxCallLog
        /\ logs' = [logs EXCEPT ![LogOf(i)] =
                       Append(@, Written(i, IF code = 0 THEN ErrorEntry(calls[i].attempt)
                                            ELSE StatusEntry(calls[i].attempt, code)))]
        /\ calls' = [calls EXCEPT ![i].pollerPc = "sleep",
                                  ![i].answers = Append(@, code)]
    /\ UNCHANGED <<ctxs, clock>>
    /\ UNCHANGED <<syncVars, opsVars>>

\* the poll is answered 200: response = nil; cancelFn(); break exit
CallPollSucceeds ==
    /\ \E i \in Invocations :
        /\ calls[i].pollerPc = "inflight"
        /\ logs' = [logs EXCEPT ![LogOf(i)] = SuccessLog(@)]
        /\ ctxs' = [ctxs EXCEPT ![CtxOf(i)] = IF @ = "none" THEN "canceled" ELSE @]
        /\ calls' = [calls EXCEPT ![i].pollerPc = "exited",
                                  ![i].answers = Append(@, StatusOK)]
    /\ UNCHANGED clock
    /\ UNCHANGED <<syncVars, opsVars>>

\* time.Sleep(time.Second * 2) ends; continue
CallPollerWake ==
    /\ \E i \in Invocations :
        /\ calls[i].pollerPc = "sleep"
        /\ calls' = [calls EXCEPT ![i].pollerPc = "select", ![i].attempt = @ + 1]
    /\ UNCHANGED <<ctxs, logs, clock>>
    /\ UNCHANGED <<syncVars, opsVars>>

\* <-ctx.Done()
CallReleased ==
    /\ \E i \in Invocations :
        /\ calls[i].callerPc = "wait"
        /\ ctxs[CtxOf(i)] # "none"
        /\ calls' = [calls EXCEPT ![i].callerPc = "check"]
    /\ UNCHANGED <<ctxs, logs, clock>>
    /\ UNCHANGED <<syncVars, opsVars>>

\* if len(response) > 0 ... return nil
CallCheck ==
    /\ \E i \in Invocations :
        /\ calls[i].callerPc = "check"
        /\ IF Len(logs[LogOf(i)]) > 0
           THEN calls' = [calls EXCEPT ![i].callerPc = "join"]
           ELSE calls' = [calls EXCEPT ![i].callerPc = "returned", ![i].ret = NilResult]
    /\ UNCHANGED <<ctxs, logs, clock>>
    /\ UNCHANGED <<syncVars, opsVars>>

\* return fmt.Errorf(strings.Join(response, "; ")); the read is torn when
\* the poller of the invocation is storing the slice at that moment
CallJoin ==
    /\ \E i \in Invocations :
        /\ calls[i].callerPc = "join"
        /\ \E r \in {ErrorResult(logs[LogOf(i)])} \cup
                    (IF calls[i].pollerPc \in {"select", "inflight"}
                     THEN {TornResult} ELSE {}) :
            calls' = [calls EXCEPT ![i].callerPc = "returned", ![i].ret = r]
    /\ UNCHANGED <<ctxs, logs, clock>>
    /\ UNCHANGED <<syncVars, opsVars>>

\* the request of a GetEntity comes back
CallFetchReturns ==
    /\ \E i \in Invocations :
        /\ calls[i].callerPc = "fetch"
        /\ \E ans \in {TransportError} \cup
                      {Answer(st, TRUE, TRUE, 0, NoBody) : st \in Statuses} :
            calls' = [calls EXCEPT
                         ![i].callerPc = "returned",
                         ![i].answers = Append(@, ans),
                         ![i].ret = IF ans.transport THEN Fail("transport", 0, 0)
                                    ELSE FetchResult(ans)]
    /\ UNCHANGED <<ctxs, logs, clock>>
    /\ UNCHANGED <<syncVars, opsVars>>

NextCalls ==
    \/ ClockTick
    \/ CallDeadline
    \/ CallPollerTimeout
    \/ CallPoll
    \/ CallPollFails
    \/ CallPollSucceeds
    \/ CallPollerWake
    \/ CallReleased
    \/ CallCheck
    \/ CallJoin
    \/ CallFetchReturns

\* ---------------------------------------------------------- specifications
\* no Sync invocation
NoSync ==
    /\ timeout = 0
    /\ now = 0
    /\ ctxErr = "none"
    /\ response = <<>>
    /\ pollerPc = "exited"
    /\ attempt = 1
    /\ pending = <<>>
    /\ afterWrite = "select"
    /\ wakeAt = 0
    /\ callerPc = "idle"
    /\ result = NoResult
    /\ polls = <<>>
    /\ got200 = 0
    /\ readOf = {}
    /\ lateWrites = 0

\* one Sync invocation on a client that does nothing else
SyncInit == InitSync /\ InitOps /\ NoCalls
SpecSync == SyncInit /\ [][NextSync]_vars

\* Sync with the steps that need nothing from the store or from the poller
\* taken when they can be: the clock and the timer of the context run, and
\* the caller's goroutine is scheduled. Nothing is assumed of the polls
\* (http.Get has no timeout) nor of the poller.
FairSync ==
    /\ SyncInit
    /\ [][NextSync]_vars
    /\ WF_vars(Tick)
    /\ WF_vars(DeadlineFires)
    /\ WF_vars(CallerReleased)
    /\ WF_vars(CallerCheck)
    /\ WF_vars(CallerJoin)

\* the request/response operations, one invocation after another
OpsInit == NoSync /\ InitOps /\ NoCalls
SpecOps == OpsInit /\ [][NextOps]_vars

\* two invocations in progress at once on one client whose base address
\* is left alone
SharedInit == NoSync /\ InitOps /\ InitCalls
SpecShared == SharedInit /\ [][NextCalls]_vars

\* ------------------------------------------------------ operations: claims
\* the invocation has returned after the store answered its first request
AnsweredAndDone ==
    /\ opPc = "done"
    /\ got # <<>>
    /\ ~got[1].transport

\* C5: a submission (SubmitPutTx, SubmitEvictTx, PersistEntities) the store
\* answers with 202 returns a receipt and no error, whether or not the
\* receipt decoded and whatever the await that followed came to.
C5_AcceptedIsSuccess ==
    (op \in SubmitOps /\ AnsweredAndDone /\ got[1].status = 202) =>
        /\ ret.outcome = "ok"
        /\ ret.val.kind = "receipt"
        /\ ret.val.txid = got[1].txid

\* a put answered 202 with a receipt that did not decode, whose await was
\* answered 500, returned its receipt
C5_Witness ==
    /\ op = "SubmitPutTx"
    /\ opPc = "done"
    /\ Len(got) = 2
    /\ got[1].status = 202
    /\ ~got[1].decodeOk
    /\ got[2].status = 500
    /\ ret.outcome = "ok"

\* C6: SubmitPutTx and PersistEntities called with an empty batch return an
\* error and issue no request.
C6_EmptyBatchRejected ==
    (op \in {"SubmitPutTx", "PersistEntities"} /\ arg.batch = <<>>) =>
        /\ sent = <<>>
        /\ opPc = "done"
        /\ ret.outcome = "error"

\* C7: SubmitEvictTx called with no identity returns an error and issues no
\* request, neither a submission nor an await.
C7_EmptyEvictRejected ==
    (op = "SubmitEvictTx" /\ arg.ids = <<>>) =>
        /\ sent = <<>>
        /\ opPc = "done"
        /\ ret.outcome = "error"

\* SubmitEvictTx was called with no identity
C7_Witness ==
    /\ op = "SubmitEvictTx"
    /\ arg.ids = <<>>
    /\ ret.outcome = "error"

\* C8: GetEntity and GetEntityHistory (the sort order accepted) return
\* nil, nil when the store answers 404, the body when it answers 200 and the
\* body is read, and for any other status an error that holds the status.
C8_FetchStatusMapping ==
    (op \in FetchOps /\ AnsweredAndDone) =>
        /\ got[1].status = 404 => ret = OkNil
        /\ (got[1].status = 200 /\ got[1].readOk) =>
               /\ ret.outcome = "ok"
               /\ ret.val.kind = "bytes"
               /\ ret.val.body = got[1].body
        /\ got[1].status \notin {200, 404} =>
               /\ ret.outcome = "error"
               /\ ret.err.code = got[1].status

\* a history fetch answered 404 returned nil, nil
C8_Witness ==
    /\ op = "GetEntityHistory"
    /\ AnsweredAndDone
    /\ got[1].status = 404
    /\ ret.outcome = "ok"
    /\ ret.val.kind = "nil"

\* C9: GetEntityHistory called with a sort order that is neither asc nor
\* desc returns an error and issues no request.
C9_BadSortOrderRejected ==
    (op = "GetEntityHistory" /\ arg.sortOrder \notin {"asc", "desc"}) =>
        /\ sent = <<>>
        /\ opPc = "done"
        /\ ret.outcome = "error"

\* GetEntityHistory was called with the sort order ASC
C9_Witness ==
    /\ op = "GetEntityHistory"
    /\ arg.sortOrder = "ASC"
    /\ ret.outcome = "error"

\* the status each operation takes for success
SuccessStatus(name) == IF name \in SubmitOps THEN 202 ELSE 200

\* the answer is a protocol error for the operation
ProtocolError(name, status) ==
    /\ status # SuccessStatus(name)
    /\ ~(name \in FetchOps /\ status = 404)

\* C10: on every operation (the submissions, the fetches, the queries and
\* AwaitTx called directly) an answer whose status is not the operation's
\* success status, and is not 404 on a fetch, makes the call return an error
\* that holds the status.
C10_ProtocolErrorsAreErrors ==
    (op # "idle" /\ AnsweredAndDone /\ ProtocolError(op, got[1].status)) =>
        /\ ret.outcome = "error"
        /\ ret.err.code = got[1].status

\* ------------------------------------------------------------ Sync: claims
HasTimeoutEntry(log) == \E k \in DOMAIN log : log[k] = TimeoutEntry

\* every poll this invocation issued has failed, and no other will be issued
EveryPollFailed ==
    /\ polls # <<>>
    /\ got200 = 0
    /\ pollerPc # "inflight"
    /\ ctxErr # "none"

\* C1: when every poll fails, Sync returns only once the deadline has fired,
\* and it returns an error whose message holds one entry for each failed
\* attempt recorded when the caller read the log, numbered 1, 2, ... in
\* order, none missing and none twice.
C1_AllFailedError ==
    (callerPc = "returned" /\ EveryPollFailed) =>
        /\ ctxErr = "deadline"
        /\ now >= timeout
        /\ result.err
        /\ ~result.torn
        /\ \E log \in readOf : AttemptsOf(result.msg) = AttemptsOf(log)
        /\ \A k \in 1..Len(AttemptsOf(result.msg)) :
               AttemptsOf(result.msg)[k].attempt = k

C3_NilOnlyAfter200 ==
    (callerPc = "returned" /\ ~result.err) => got200 # 0

\* C4: the polling task terminates on every path: once it has found the
\* context done and recorded "timeout reached", it does not come back to
\* the top of its loop.
C4_PollerTerminates ==
    ~(pollerPc = "select" /\ HasTimeoutEntry(response))


\* ------------------------------------------- operations: claims, continued
\* the request carries a content-type and an accept header
BothHeaders(r) == r.accept # "" /\ r.contentType # ""

\* C11 as stated: in every request that carries both headers, of every
\* operation, the content-type and the accept header name the same encoding.
C11_NeverMixed ==
    \A k \in DOMAIN sent : BothHeaders(sent[k]) => sent[k].accept = sent[k].contentType

\* C11: in every request that carries both headers the content-type and the
\* accept header name the same encoding, except the requests of
\* QueryRawAsJson and QueryAsJson, which post the query as structured data
\* (content-type application/edn) and accept application/json.
C11_MixedOnlyInJsonQueries ==
    \A k \in DOMAIN sent :
        BothHeaders(sent[k]) =>
            IF op \in {"QueryRawAsJson", "QueryAsJson"}
            THEN /\ sent[k].contentType = "application/edn"
                 /\ sent[k].accept = "application/json"
            ELSE sent[k].accept = sent[k].contentType

\* PersistEntities has sent its submission, both headers JSON
C11_Witness ==
    /\ op = "PersistEntities"
    /\ sent # <<>>
    /\ sent[1].accept = "application/json"
    /\ sent[1].contentType = "application/json"

\* C12: no request/response operation retries: in one invocation each
\* endpoint is requested at most once whatever the answers were, so a
\* submission issues at most one submit request and at most one await
\* request, and every other operation at most one request.
C12_NoRetry ==
    /\ \A j, k \in DOMAIN sent : sent[j].path = sent[k].path => j = k
    /\ Len(sent) <= (IF op \in SubmitOps THEN 2 ELSE 1)

\* a put whose submission failed in the transport returned after that one
\* request
C12_Witness ==
    /\ op = "SubmitPutTx"
    /\ opPc = "done"
    /\ Len(got) = 1
    /\ got[1].transport
    /\ Len(sent) = 1

\* C13: Query and QueryAsJson, for a result of N rows of more than one
\* column each, return a list of exactly N elements whose i-th element is
\* the first column of the i-th row.
C13_FirstColumnOfEachRow ==
    (/\ op \in {"Query", "QueryAsJson"}
     /\ AnsweredAndDone
     /\ got[1].readOk
     /\ got[1].body.decodes
     /\ \A k \in DOMAIN got[1].body.rows : Len(got[1].body.rows[k]) > 1) =>
        /\ ret.outcome = "ok"
        /\ ret.val.kind = "list"
        /\ Len(ret.val.elems) = Len(got[1].body.rows)
        /\ \A k \in DOMAIN got[1].body.rows : ret.val.elems[k] = got[1].body.rows[k][1]

\* QueryAsJson normalised two rows of two different columns each
C13_Witness ==
    /\ op = "QueryAsJson"
    /\ AnsweredAndDone
    /\ got[1].body.rows = << <<"a", "b">>, <<"b", "a">> >>
    /\ ret.val.elems = <<"a", "b">>


\* the store's reading of an envelope: the records of its put operations in
\* order, or malformed
Malformed == [ok |-> FALSE, docs |-> <<>>]

RECURSIVE DecodeOpsEdn(_)
\* a run of [:xtdb.api/put <record>] vectors
DecodeOpsEdn(toks) ==
    IF toks = <<>> THEN [ok |-> TRUE, docs |-> <<>>]
    ELSE IF /\ Len(toks) >= 4
            /\ toks[1] = Tok("[")
            /\ toks[2] = Tok(":xtdb.api/put")
            /\ toks[3].tok = "edn"
            /\ toks[4] = Tok("]")
    THEN LET rest == DecodeOpsEdn(SubSeq(toks, 5, Len(toks)))
         IN  IF rest.ok THEN [ok |-> TRUE, docs |-> <<toks[3].of>> \o rest.docs]
             ELSE Malformed
    ELSE Malformed

\* {:tx-ops [ ... ]}
DecodeEnvelopeEdn(toks) ==
    IF /\ Len(toks) >= 5
       /\ SubSeq(toks, 1, 3) = <<Tok("{"), Tok(":tx-ops"), Tok("[")>>
       /\ SubSeq(toks, Len(toks) - 1, Len(toks)) = <<Tok("]"), Tok("}")>>
    THEN DecodeOpsEdn(SubSeq(toks, 4, Len(toks) - 2))
    ELSE Malformed

RECURSIVE DecodeOpsJson(_)
\* a run of ["put", <record>] arrays, comma separated
DecodeOpsJson(toks) ==
    IF /\ Len(toks) >= 5
       /\ toks[1] = Tok("[")
       /\ toks[2] = Tok("\"put\"")
       /\ toks[3] = Tok(",")
       /\ toks[4].tok = "json"
       /\ toks[5] = Tok("]")
    THEN IF Len(toks) = 5 THEN [ok |-> TRUE, docs |-> <<toks[4].of>>]
         ELSE IF toks[6] = Tok(",")
         THEN LET rest == DecodeOpsJson(SubSeq(toks, 7, Len(toks)))
              IN  IF rest.ok THEN [ok |-> TRUE, docs |-> <<toks[4].of>> \o rest.docs]
                  ELSE Malformed
         ELSE Malformed
    ELSE Malformed

\* {"tx-ops": [ ... ]}
DecodeEnvelopeJson(toks) ==
    IF /\ Len(toks) >= 6
       /\ SubSeq(toks, 1, 4) = <<Tok("{"), Tok("\"tx-ops\""), Tok(":"), Tok("[")>>
       /\ SubSeq(toks, Len(toks) - 1, Len(toks)) = <<Tok("]"), Tok("}")>>
    THEN IF Len(toks) = 6 THEN [ok |-> TRUE, docs |-> <<>>]
         ELSE DecodeOpsJson(SubSeq(toks, 5, Len(toks) - 2))
    ELSE Malformed

\* C14: for every non-empty batch of records the envelope the put encoder
\* writes (buildTrxPutEdn for SubmitPutTx, buildPersistPayload for
\* PersistEntities) decodes to exactly one put operation per record, in the
\* order of the batch, each carrying its record.
C14_PutRoundTrip ==
    /\ (op = "SubmitPutTx" /\ arg.batch # <<>> /\ sent # <<>>) =>
           DecodeEnvelopeEdn(sent[1].body) = [ok |-> TRUE, docs |-> arg.batch]
    /\ (op = "PersistEntities" /\ arg.batch # <<>> /\ sent # <<>>) =>
           DecodeEnvelopeJson(sent[1].body) = [ok |-> TRUE, docs |-> arg.batch]

\* a put of two different records has been encoded and sent
C14_Witness ==
    /\ op = "SubmitPutTx"
    /\ arg.batch = <<"doc1", "doc2">>
    /\ sent # <<>>
    /\ DecodeEnvelopeEdn(sent[1].body).docs = <<"doc1", "doc2">>


\* the fields of the record that carry a tag other than "-"
TaggedFields(fields) ==
    {k \in DOMAIN fields : fields[k].tag # "" /\ fields[k].tag # "-"}

\* C15 as stated: the mapping has exactly one key per field whose tag is
\* present and is not "-", mapped to that field's value, and no other key.
C15_OneKeyPerTaggedField ==
    (op = "EntityToMap" /\ opPc = "done") =>
        LET fields == arg.fields
            payload == ret.val.payload
        IN  /\ DOMAIN payload = {fields[k].tag : k \in TaggedFields(fields)}
            /\ Cardinality(DOMAIN payload) = Cardinality(TaggedFields(fields))
            /\ \A k \in TaggedFields(fields) : payload[fields[k].tag] = fields[k].value

\* C15: the keys of the mapping are exactly the tags that are present and
\* are not "-"; each key is mapped to the value of the last field that
\* carries it, so fields with different tags get one key each, mapped to
\* their own value; fields tagged "-" and untagged fields add no key.
C15_KeysAreTags ==
    (op = "EntityToMap" /\ opPc = "done") =>
        LET fields == arg.fields
            payload == ret.val.payload
        IN  /\ DOMAIN payload = {fields[k].tag : k \in TaggedFields(fields)}
            /\ \A k \in TaggedFields(fields) :
                   (\A j \in TaggedFields(fields) : fields[j].tag = fields[k].tag => j <= k)
                       => payload[fields[k].tag] = fields[k].value

\* a record with a field tagged a, a field tagged "-" and an untagged field
\* gave a mapping whose only key is a
C15_Witness ==
    /\ op = "EntityToMap"
    /\ opPc = "done"
    /\ arg.fields = <<[tag |-> "a", value |-> "v1"], [tag |-> "-", value |-> "v2"],
                      [tag |-> "", value |-> "v2"]>>
    /\ DOMAIN ret.val.payload = {"a"}
    /\ ret.val.payload["a"] = "v1"


\* the await request of the submission in progress, if one was issued
AwaitIssued == \E k \in DOMAIN sent : sent[k].path = "/_xtdb/await-tx"

\* C18: in a submission an await request is issued if and only if the
\* submission was answered 202 with a receipt whose id is positive; it is
\* issued once the answer to the submission is in, it names the id of that
\* receipt, and the submission returns only when the await has an outcome.
\* A transport error, another status or an id of 0 gives no await request.
C18_AwaitIffPositiveReceipt ==
    op \in SubmitOps =>
        /\ AwaitIssued <=> /\ got # <<>>
                           /\ ~got[1].transport
                           /\ got[1].status = 202
                           /\ got[1].txid > 0
        /\ AwaitIssued =>
               /\ Len(sent) = 2
               /\ sent[1].path = "/_xtdb/submit-tx"
               /\ sent[2].method = "GET"
               /\ sent[2].txid = got[1].txid
               /\ opPc \in {"await", "done"}
               /\ opPc = "done" <=> Len(got) = 2

\* a submission answered 202 with receipt MaxTxID returned once its await
\* was answered
C18_Witness ==
    /\ op \in SubmitOps
    /\ opPc = "done"
    /\ AwaitIssued
    /\ sent[2].txid = MaxTxID
    /\ Len(got) = 2

\* a submission answered 202 with a receipt of id 0 returned with no await
C18_WitnessNoAwait ==
    /\ op \in SubmitOps
    /\ opPc = "done"
    /\ got[1].status = 202
    /\ got[1].txid = 0
    /\ ~AwaitIssued


\* the steps the client takes with no answer of the store: the
\* invocations, SetURL and the return to the caller
OwnSteps ==
    \/ CallSubmitPutTx
    \/ CallSubmitEvictTx
    \/ CallPersistEntities
    \/ CallAwaitTx
    \/ CallGetEntity
    \/ CallGetEntityHistory
    \/ CallQuery
    \/ CallEntityToMap
    \/ SetURL
    \/ Return

\* C16: AwaitTx is bounded by a timeout of its own: an await in progress,
\* called directly or inside a submission, can come to its end by a step of
\* the client alone, with no answer of the store.
C16_AwaitBounded ==
    opPc = "await" => ENABLED (OwnSteps /\ opPc' = "done")

\* ------------------------------------------------- Sync: claims, continued
\* C19: the poller makes no write of response that overlaps the caller's
\* read of it or follows it: every read the caller made had one value to
\* see, and once the caller has returned the poller stores nothing more.
C19_NoRacingWrite ==
    /\ Cardinality(readOf) <= 1
    /\ ~result.torn
    /\ lateWrites = 0


\* C20: the caller of Sync always returns in the end, and from the moment
\* the context is done (the deadline fired or a poll was answered 200 and
\* cancelled it) the caller is free to go on, whatever the poller is doing:
\* in a poll that never completes, asleep in its backoff, or anywhere else.
C20_CallerReturns ==
    /\ <>(callerPc = "returned")
    /\ [](ctxErr # "none" => callerPc # "wait" \/ ENABLED CallerReleased)
    /\ (ctxErr # "none") ~> (callerPc = "returned")

\* the caller has returned on the deadline while a poll is still in flight
C20_Witness ==
    /\ callerPc = "returned"
    /\ ctxErr = "deadline"
    /\ pollerPc = "inflight"
    /\ timeout > 0

\* the caller has returned on the deadline while the poller is asleep
C20_WitnessAsleep ==
    /\ callerPc = "returned"
    /\ ctxErr = "deadline"
    /\ pollerPc = "sleep"
    /\ now < wakeAt


\* ------------------------------------------- concurrent invocations: claims
\* the codes of the failed polls among the answers an invocation got
FailedCodes(answers) == SelectSeq(answers, LAMBDA c : c # StatusOK)

\* the codes of the failed attempts a log records
LoggedCodes(log) ==
    LET attempts == SelectSeq(log, LAMBDA w : IsAttempt(w.entry))
    IN  [k \in DOMAIN attempts |-> attempts[k].entry.code]

\* the log and the context of invocation i hold what i's own polls and i's
\* own timer put there
OwnLogAndCtx(i) ==
    /\ \A k \in DOMAIN logs[i] : logs[i][k].by = i
    /\ IF calls[i].kind = "Sync"
       THEN /\ IF \E k \in DOMAIN calls[i].answers : calls[i].answers[k] = 200
               THEN logs[i] = <<>>
               ELSE LoggedCodes(logs[i]) = FailedCodes(calls[i].answers)
            /\ ctxs[i] = "canceled" =>
                   \E k \in DOMAIN calls[i].answers : calls[i].answers[k] = 200
            /\ ctxs[i] = "deadline" => clock >= calls[i].timeout
            /\ calls[i].callerPc # "wait" => ctxs[i] # "none"
       ELSE /\ logs[i] = <<>>
            /\ ctxs[i] = "none"

\* what invocation i returns in this step comes from its own log or from
\* the answer to its own request, and it returns once
OwnResult(i) ==
    calls'[i].ret # calls[i].ret =>
        /\ calls[i].callerPc # "returned"
        /\ calls'[i].callerPc = "returned"
        /\ calls[i].callerPc = "check" => calls'[i].ret = NilResult /\ logs[i] = <<>>
        /\ calls[i].callerPc = "join" =>
               calls'[i].ret \in {ErrorResult(logs[i]), TornResult}
        /\ calls[i].callerPc = "fetch" =>
               LET ans == calls'[i].answers[1]
               IN  calls'[i].ret = IF ans.transport THEN Fail("transport", 0, 0)
                                   ELSE FetchResult(ans)

\* C17: with the base address left alone, invocations in progress at once
\* on one client do not interfere. Each Sync has a failure log and a
\* deadline of its own: its log holds the failures of its own polls and
\* nothing else, its context is done by its own timer or its own 200, its
\* caller is released by that context only, and what an invocation returns
\* is read from its own log, or from the answer to its own request, and is
\* never altered afterwards.
C17_NoInterference ==
    /\ [](\A i \in Invocations : OwnLogAndCtx(i))
    /\ [][\A i \in Invocations : OwnResult(i)]_vars

\* two Syncs with different timeouts: the second was answered 200 and
\* returned nil; the first, its polls failing, returned its own failures on
\* its own deadline
C17_Witness ==
    /\ calls["i1"].kind = "Sync"
    /\ calls["i2"].kind = "Sync"
    /\ calls["i1"].timeout # calls["i2"].timeout
    /\ ctxs["i2"] = "canceled"
    /\ calls["i2"].ret = NilResult
    /\ ctxs["i1"] = "deadline"
    /\ calls["i1"].ret.err
    /\ ~calls["i1"].ret.torn
    /\ Len(calls["i1"].ret.msg) > 1


\* ------------------------------------------ operations: claims, concluded
\* C22: within one submission, the submission request and the await request
\* that follows it go to the same base address, whatever SetURL calls on
\* the client come in between.
C22_AwaitSameBase ==
    (op \in SubmitOps /\ Len(sent) = 2) => sent[2].base = sent[1].base

\* C23: Query and QueryAsJson end normally for every answer that decodes as
\* a sequence of rows, a row of no columns and a result of no rows
\* included: they return the normalised list or an error, never abort, and
\* a result of no rows gives the empty list.
C23_QueryNeverAborts ==
    (/\ op \in {"Query", "QueryAsJson"}
     /\ AnsweredAndDone
     /\ got[1].readOk
     /\ got[1].body.decodes) =>
        /\ ret.outcome \in {"ok", "error"}
        /\ got[1].body.rows = <<>> =>
               /\ ret.outcome = "ok"
               /\ ret.val.kind = "list"
               /\ ret.val.elems = <<>>

\* ------------------------------------------------ Sync: claims, concluded
\* the polls issued so far whose failure is in the log: all of them, but for
\* the last one while it is in flight or while its entry is being stored
PollsRecorded ==
    IF pollerPc = "inflight" \/ (pollerPc = "writing" /\ afterWrite = "sleep")
    THEN Len(polls) - 1
    ELSE Len(polls)

\* while no poll has been answered 200, the log records each failed poll
\* once, in order, under its attempt number; the k-th poll is attempt k,
\* the loop having gone round once, by its continue, after each failure
FailuresRecordedOnce ==
    /\ \A k \in DOMAIN polls : polls[k] = k
    /\ got200 = 0 =>
           LET recorded == SelectSeq(response, LAMBDA e : e.what \in {"error", "status"})
           IN  /\ Len(recorded) = PollsRecorded
               /\ \A k \in DOMAIN recorded : recorded[k].attempt = polls[k]

\* a step that issues a poll other than the first finds the failure of the
\* poll before it in the log, no poll answered 200, and the backoff begun
\* at that failure over; a step that completes the record of a failure
\* puts the poller to sleep for the backoff
BackoffBetweenPolls ==
    /\ (Len(polls') > Len(polls) /\ polls # <<>>) =>
           /\ got200 = 0
           /\ PollsRecorded = Len(polls)
           /\ now >= wakeAt
           /\ wakeAt >= Backoff
    /\ (pollerPc = "writing" /\ afterWrite = "sleep" /\ pollerPc' # "writing") =>
           /\ pollerPc' = "sleep"
           /\ wakeAt' = now + Backoff
           /\ polls' = polls

\* C21: in the poll loop of Sync every failed attempt, a transport error or
\* a status that is not 200, is recorded once in the failure log and is
\* followed by one backoff before the next poll: between two consecutive
\* polls there is one recorded failure and one backoff, and a poll is
\* issued again only after a failure.
C21_FailureThenBackoff ==
    /\ []FailuresRecordedOnce
    /\ [][BackoffBetweenPolls]_vars

\* two polls have failed and both failures are in the log, the poller
\* asleep in its second backoff
C21_Witness ==
    /\ Len(polls) = 2
    /\ got200 = 0
    /\ pollerPc = "sleep"
    /\ Len(response) = 2
    /\ response[1].attempt = 1
    /\ response[2].attempt = 2
    /\ now < wakeAt


\* a step that issues a poll is taken with the context not done, which
\* rules out the deadline having fired and a 200 having cancelled the wait
PollOnlyBeforeDone ==
    Len(polls') > Len(polls) =>
        /\ ctxErr = "none"
        /\ got200 = 0
        /\ now <= timeout

\* C24: the poller looks at the context at the start of every iteration,
\* before it polls: an iteration that begins with the deadline fired, or
\* with the wait cancelled by a 200, issues no poll, so a Sync issues
\* finitely many polls: one, and one more for each backoff that fits
\* before the deadline.
C24_NoPollAfterDone ==
    /\ [][PollOnlyBeforeDone]_vars
    /\ [](Len(polls) <= 1 + timeout \div Backoff)

\* the deadline has fired after one failed poll; the poller has since gone
\* round the loop without polling and is at the start of another iteration
C24_Witness ==
    /\ ctxErr = "deadline"
    /\ polls = <<1>>
    /\ pollerPc = "select"
    /\ attempt = 3
    /\ Len(response) = 2
    /\ response[2] = TimeoutEntry

====
